---- MODULE Spec2Model ----
(***************************************************************************)
(* Business recommendation system: the scoring engine                      *)
(* (recommendation_engine.py, BusinessRecommendationEngine) and the        *)
(* demand/competition predictor (ml_predictor.py, MLPredictor).            *)
(*                                                                         *)
(* Python floats are modelled as exact rationals <<n, d>> in lowest terms  *)
(* with d > 0, so that x / y * 100, the 50/30/20 weighting and round(x, 2) *)
(* are computed as the code computes them, up to binary rounding error.    *)
(***************************************************************************)
EXTENDS Integers, Sequences, FiniteSets, TLC

VARIABLES
    csv,           \* the dataset file: the rows load_data reads
    ctor,          \* BusinessRecommendationEngine.__init__: its position (pc), and
                   \* where the construction is followed step by step, the steps
                   \* taken with their outcomes and the exception leaving it
    df,            \* BusinessRecommendationEngine.df: the dataset, a sequence of rows
    qsTie,         \* the build's tie order of numpy's default (unstable) quicksort
    use_ml,        \* BusinessRecommendationEngine.use_ml
    ml_predictor,  \* the MLPredictor object: <<>> for None, else <<its attributes>>
    files,         \* the model store: blob name -> contents
    phase,         \* the predictor's state: "Untrained" or "Trained"
    lastCall,      \* the call in progress and what it returns
    sIn,           \* scoring probe: (row, user_budget, user_interests)
    sOut           \* scoring probe: <<>>, or <<the entry computed for sIn>>

vars == <<csv, ctor, df, qsTie, use_ml, ml_predictor, files, phase, lastCall, sIn, sOut>>

None == "None"

(***************************************************************************)
(* Rational arithmetic (the float operations of the scoring functions).    *)
(***************************************************************************)
Abs(x) == IF x < 0 THEN -x ELSE x

RECURSIVE Gcd(_, _)
Gcd(a, b) == IF b = 0 THEN a ELSE Gcd(b, a % b)

Rat(n, d) ==
    LET s == IF d < 0 THEN -1 ELSE 1
        g == Gcd(Abs(n), Abs(d))
    IN  <<(s * n) \div g, (s * d) \div g>>

FromInt(i) == <<i, 1>>
RatAdd(p, q) == Rat(p[1] * q[2] + q[1] * p[2], p[2] * q[2])
RatSub(p, q) == Rat(p[1] * q[2] - q[1] * p[2], p[2] * q[2])
RatMul(p, q) == Rat(p[1] * q[1], p[2] * q[2])
RatDiv(p, q) == Rat(p[1] * q[2], p[2] * q[1])
RatLe(p, q) == p[1] * q[2] <= q[1] * p[2]
RatLt(p, q) == p[1] * q[2] < q[1] * p[2]
RatMin(p, q) == IF RatLe(p, q) THEN p ELSE q
RatAbs(p) == <<Abs(p[1]), p[2]>>

\* round(x, ndigits) for 10^ndigits = scale: to the nearest 1/scale, an exact
\* half to the even neighbour. (\div is floor division, so this is right for
\* negative x too.)
RoundTo(q, scale) ==
    LET n    == q[1] * scale
        d    == q[2]
        fl   == n \div d
        rem2 == 2 * (n - fl * d)
        k    == IF rem2 < d THEN fl
                ELSE IF rem2 > d THEN fl + 1
                ELSE IF fl % 2 = 0 THEN fl ELSE fl + 1
    IN  Rat(k, scale)

Round0(q) == RoundTo(q, 1)
Round1(q) == RoundTo(q, 10)
Round2(q) == RoundTo(q, 100)

(***************************************************************************)
(* The scoring functions.                                                  *)
(***************************************************************************)
\* Variant: the raw difference, the remapping onto [0, 100] left out.
calculate_market_gap_Raw(demand, competition) == FromInt(demand - competition)

\* demand - competition, remapped from [-100, 100] onto [0, 100].
calculate_market_gap(demand, competition) ==
    LET market_gap == FromInt(demand - competition)
    IN  RatMul(RatDiv(RatAdd(market_gap, FromInt(100)), FromInt(200)), FromInt(100))

\* Variant: the coverage percentage without the "budget covers it" branch and cap.
calculate_budget_fit_Uncapped(user_budget, required_investment) ==
    RatMul(RatDiv(FromInt(user_budget), FromInt(required_investment)), FromInt(100))

calculate_budget_fit(user_budget, required_investment) ==
    IF user_budget >= required_investment
    THEN FromInt(100)
    ELSE LET fit_percentage ==
                 RatMul(RatDiv(FromInt(user_budget), FromInt(required_investment)),
                        FromInt(100))
         IN  RatMin(fit_percentage, FromInt(100))

\* Variant: partial credit for a category outside the interests.
calculate_interest_match_Partial(user_interests, business_category) ==
    IF business_category \in user_interests THEN FromInt(100) ELSE FromInt(50)

calculate_interest_match(user_interests, business_category) ==
    IF business_category \in user_interests THEN FromInt(100) ELSE FromInt(0)

\* Variant: the weights of market gap and budget fit swapped.
WeightedTotal_Swapped(market_gap, budget_fit, interest_match) ==
    Round2(RatAdd(RatAdd(RatMul(market_gap, Rat(3, 10)),
                         RatMul(budget_fit, Rat(5, 10))),
                  RatMul(interest_match, Rat(2, 10))))

\* (market_gap * 0.5) + (budget_fit * 0.3) + (interest_match * 0.2), rounded.
WeightedTotal(market_gap, budget_fit, interest_match) ==
    Round2(RatAdd(RatAdd(RatMul(market_gap, Rat(5, 10)),
                         RatMul(budget_fit, Rat(3, 10))),
                  RatMul(interest_match, Rat(2, 10))))

calculate_total_score(row, user_budget, user_interests) ==
    WeightedTotal(calculate_market_gap(row.Demand, row.Competition),
                  calculate_budget_fit(user_budget, row.Investment),
                  calculate_interest_match(user_interests, row.Category))

MarketTag(market_gap) ==
    IF RatLe(FromInt(70), market_gap) THEN "high opportunity"
    ELSE IF RatLe(FromInt(50), market_gap) THEN "good potential"
    ELSE "competitive market"

\* Variant: the bands' lower ends taken as strict (> 80, > 50).
BudgetTag_Strict(budget_fit) ==
    IF budget_fit = FromInt(100) THEN "perfect fit"
    ELSE IF RatLt(FromInt(80), budget_fit) THEN "good alignment"
    ELSE IF RatLt(FromInt(50), budget_fit) THEN "moderate requirement"
    ELSE "high investment needed"

BudgetTag(budget_fit) ==
    IF budget_fit = FromInt(100) THEN "perfect fit"
    ELSE IF RatLe(FromInt(80), budget_fit) THEN "good alignment"
    ELSE IF RatLe(FromInt(50), budget_fit) THEN "moderate requirement"
    ELSE "high investment needed"

InterestTag(interest_match) ==
    IF interest_match = FromInt(100) THEN "matches interests"
    ELSE "outside preferred categories"

\* The explanations list, in the order it is appended to (joined by " | ").
get_score_explanation(row, user_budget, user_interests) ==
    <<MarketTag(calculate_market_gap(row.Demand, row.Competition)),
      BudgetTag(calculate_budget_fit(user_budget, row.Investment)),
      InterestTag(calculate_interest_match(user_interests, row.Category))>>

\* One entry of the list get_recommendations returns (the dict built per row).
Recommendation(row, budget, interests) ==
    [business_name       |-> row.Business,
     category            |-> row.Category,
     investment_required |-> row.Investment,
     demand              |-> row.Demand,
     competition         |-> row.Competition,
     score               |-> calculate_total_score(row, budget, interests),
     explanation         |-> get_score_explanation(row, budget, interests),
     market_gap          |-> calculate_market_gap(row.Demand, row.Competition),
     budget_fit          |-> calculate_budget_fit(budget, row.Investment),
     interest_match      |-> calculate_interest_match(interests, row.Category)]

(***************************************************************************)
(* Frames: a pandas frame is the sequence of the dataset positions (index  *)
(* labels) of its rows, in frame order; the rows themselves stay in df.    *)
(***************************************************************************)
RECURSIVE SeqSum(_)
SeqSum(s) == IF s = <<>> THEN 0 ELSE Head(s) + SeqSum(Tail(s))

Range(s) == {s[i] : i \in 1..Len(s)}

\* frame.head(n)
HeadN(s, n) == SubSeq(s, 1, IF n < Len(s) THEN n ELSE Len(s))

\* self.df[self.df['City'] == city]: the positions of the city's rows, in order.
CityFrame(d, city) == SelectSeq([i \in 1..Len(d) |-> i], LAMBDA i : d[i].City = city)

\* A stable sort (numpy's 'mergesort') of the positions in idx by descending
\* key: positions of equal key keep their order in idx.
RECURSIVE StableSortDesc(_, _)
StableSortDesc(idx, key) ==
    IF idx = <<>> THEN <<>>
    ELSE LET rest == StableSortDesc(SubSeq(idx, 1, Len(idx) - 1), key)
             x    == idx[Len(idx)]
             \* x is the last of idx: it goes behind every key >= its own
             k    == Cardinality({j \in 1..Len(rest) : RatLe(key[x], key[rest[j]])})
         IN  SubSeq(rest, 1, k) \o <<x>> \o SubSeq(rest, k + 1, Len(rest))

\* The places 1..n of a frame sorted by descending key, equal keys by the
\* rank tie gives their places.
RECURSIVE SortPlacesDesc(_, _, _, _)
SortPlacesDesc(n, idx, key, tie) ==
    IF n = 0 THEN <<>>
    ELSE LET rest == SortPlacesDesc(n - 1, idx, key, tie)
             k    == Cardinality({j \in 1..Len(rest) :
                         \/ RatLt(key[idx[n]], key[idx[rest[j]]])
                         \/ /\ key[idx[n]] = key[idx[rest[j]]]
                            /\ tie[rest[j]] < tie[n]})
         IN  SubSeq(rest, 1, k) \o <<n>> \o SubSeq(rest, k + 1, Len(rest))

\* Series.sort_values(ascending=False) with the default kind='quicksort':
\* descending by key; numpy's quicksort is not stable, so the order of equal
\* keys is the build's: tie[p] is the rank the build gives frame place p.
QuickSortDesc(idx, key, tie) ==
    LET places == SortPlacesDesc(Len(idx), idx, key, tie)
    IN  [r \in 1..Len(idx) |-> idx[places[r]]]

\* Variant: ascending order (nsmallest).
nlargest_Ascending(n, idx, key, tie) ==
    LET neg == [i \in DOMAIN key |-> <<-key[i][1], key[i][2]>>]
    IN  HeadN(StableSortDesc(idx, neg), n)

\* Variant: the cut taken in frame order, before sorting.
nlargest_CutFirst(n, idx, key, tie) == StableSortDesc(HeadN(idx, n), key)

\* Variant: sort_values(ascending=False).head(n) on every path.
nlargest_Unstable(n, idx, key, tie) == HeadN(QuickSortDesc(idx, key, tie), n)

\* Variant: no cut at n.
nlargest_NoCut(n, idx, key, tie) == StableSortDesc(idx, key)

\* frame.nlargest(n, 'score') with keep='first' (pandas SelectNSeries.compute).
\* n >= len(frame), "slow method": sort_values(ascending=False).head(n).
\* n < len(frame), "fast method": the rows with a key >= the n-th largest,
\* argsort(kind='mergesort') on the negated keys, the first n of them.
nlargest(n, idx, key, tie) ==
    IF n <= 0 THEN <<>>
    ELSE IF n >= Len(idx) THEN HeadN(QuickSortDesc(idx, key, tie), n)
    ELSE LET kth == key[StableSortDesc(idx, key)[n]]
             ns  == SelectSeq(idx, LAMBDA i : RatLe(kth, key[i]))
         IN  HeadN(StableSortDesc(ns, key), n)

\* The 'score' column: calculate_total_score applied to every row.
RECURSIVE ScoreColumn(_, _, _)
ScoreColumn(d, budget, interests) ==
    IF d = <<>> THEN <<>>
    ELSE Append(ScoreColumn(SubSeq(d, 1, Len(d) - 1), budget, interests),
                calculate_total_score(d[Len(d)], budget, interests))

\* top_businesses: the positions of the rows get_recommendations returns.
top_businesses(d, tie, city, budget, interests, top_n) ==
    LET city_businesses == CityFrame(d, city)
    IN  IF city_businesses = <<>> THEN <<>>
        ELSE nlargest(top_n, city_businesses, ScoreColumn(d, budget, interests), tie)

\* The list of dicts built from top_businesses.
Recommendations(d, top, budget, interests) ==
    [k \in 1..Len(top) |-> Recommendation(d[top[k]], budget, interests)]

get_recommendations(d, tie, city, budget, interests, top_n) ==
    Recommendations(d, top_businesses(d, tie, city, budget, interests, top_n),
                    budget, interests)

\* Variant: the filtered frame assigned back to self.df.
DfAfterRecommend_Filtered(d, city) == [k \in 1..Len(CityFrame(d, city)) |-> d[CityFrame(d, city)[k]]]

\* self.df after get_recommendations: the score and explanation columns are
\* added to city_businesses, a copy, and self.df is not assigned.
DfAfterRecommend(d, city) == d

\* Series.mean() of a column given as a sequence of integers.
Mean(col) == Rat(SeqSum(col), Len(col))

\* frame[field] as a sequence.
Column(d, idx, field) == [k \in 1..Len(idx) |-> d[idx[k]][field]]

SeqMin(col) == CHOOSE m \in Range(col) : \A x \in Range(col) : m <= x
SeqMax(col) == CHOOSE m \in Range(col) : \A x \in Range(col) : m >= x

\* The distinct categories of a frame in order of first appearance
\* (the key order of value_counts before it sorts).
FirstSeen(d, idx) ==
    LET first == SelectSeq([k \in 1..Len(idx) |-> k],
                     LAMBDA k : \A j \in 1..(k - 1) :
                                   d[idx[j]].Category # d[idx[k]].Category)
    IN  [k \in 1..Len(first) |-> d[idx[first[k]]].Category]

CountOf(d, idx, cat) == Cardinality({k \in 1..Len(idx) : d[idx[k]].Category = cat})

\* city_data['Category'].value_counts().index[0]: the counts sorted by
\* sort_values(ascending=False), default kind='quicksort'.
TopCategory(d, idx, tie) ==
    LET cats   == FirstSeen(d, idx)
        counts == [k \in 1..Len(cats) |-> FromInt(CountOf(d, idx, cats[k]))]
        order  == QuickSortDesc([k \in 1..Len(cats) |-> k], counts, tie)
    IN  cats[order[1]]

EmptyDict == <<>>

get_city_summary(d, tie, city) ==
    LET city_data == CityFrame(d, city)
        demand      == Column(d, city_data, "Demand")
        competition == Column(d, city_data, "Competition")
        investment  == Column(d, city_data, "Investment")
    IN  IF city_data = <<>> THEN EmptyDict
        ELSE [total_businesses |-> Len(city_data),
              categories       |-> Cardinality({d[i].Category : i \in Range(city_data)}),
              avg_demand       |-> Round1(Mean(demand)),
              avg_competition  |-> Round1(Mean(competition)),
              min_investment   |-> SeqMin(investment),
              max_investment   |-> SeqMax(investment),
              avg_investment   |-> Round0(Mean(investment)),
              top_category     |-> TopCategory(d, city_data, tie)]

\* groupby('Category').agg(...).round(2), then the market_gap column:
\* (avg_demand - avg_competition).round(2), and to_dict('index').
get_category_analysis(d, city) ==
    LET city_data == CityFrame(d, city)
        cats      == {d[i].Category : i \in Range(city_data)}
        group(c)  == SelectSeq(city_data, LAMBDA i : d[i].Category = c)
        stats(c)  ==
            LET g == group(c)
                avg_demand      == Round2(Mean(Column(d, g, "Demand")))
                avg_competition == Round2(Mean(Column(d, g, "Competition")))
                investment      == Column(d, g, "Investment")
            IN  [avg_demand      |-> avg_demand,
                 avg_competition |-> avg_competition,
                 avg_investment  |-> Round2(Mean(investment)),
                 min_investment  |-> SeqMin(investment),
                 max_investment  |-> SeqMax(investment),
                 business_count  |-> Len(g),
                 market_gap      |-> Round2(RatSub(avg_demand, avg_competition))]
    IN  [c \in cats |-> stats(c)]

(***************************************************************************)
(* MLPredictor. A predictor object is a record of its attributes; an        *)
(* attribute that is None in the code is <<>> and a value v is <<v>>.       *)
(* The model store (the models directory) maps the blob names present to    *)
(* their contents.                                                          *)
(***************************************************************************)
Some(v) == <<v>>
IsNone(o) == o = <<>>

\* The strings of the model in alphabetical order (np.unique sorts).
Alphabet == <<"App", "Cafe", "Crafts", "Delhi", "Food", "Kiosk", "Mumbai", "Pune", "Retail", "Tech">>

EncodedColumns == <<"City", "Category", "Business">>

\* LabelEncoder.fit: classes_ is the sorted distinct values.
FitClasses(values) == SelectSeq(Alphabet, LAMBDA a : a \in values)

\* LabelEncoder.transform of one value known to the encoder: its place, from 0.
ClassCode(classes, v) == (CHOOSE k \in 1..Len(classes) : classes[k] = v) - 1

\* transform([x])[0] if x in unique_values else -1
EncodeValue(classes, v) == IF v \in Range(classes) THEN ClassCode(classes, v) ELSE -1

\* The encoders after the loop of prepare_features over frame: a column
\* without an encoder gets one fitted on the frame; the others are kept.
EncodersAfter(encoders, frame) ==
    [col \in {"City", "Category", "Business"} |->
        IF col \in DOMAIN encoders THEN encoders[col]
        ELSE FitClasses({frame[i][col] : i \in 1..Len(frame)})]

\* Sample variance (the square of pandas' std, ddof=1); NaN -> fillna(0)
\* for a group of one row.
Variance(col) ==
    IF Len(col) < 2 THEN FromInt(0)
    ELSE LET n  == Len(col)
             sq == SeqSum([k \in 1..n |-> (n * col[k] - SeqSum(col)) * (n * col[k] - SeqSum(col))])
         IN  Rat(sq, n * n * (n - 1))

\* prepare_features: the encoders it leaves in self.label_encoders and the
\* feature rows. The aggregate columns are grouped over the frame passed in.
\* Investment_log (log1p) is carried by its argument, the std columns by
\* their squares.
prepare_features(encoders, frame) ==
    LET enc == EncodersAfter(encoders, frame)
        code(i, col) == EncodeValue(enc[col], frame[i][col])
        group(i, col) == SelectSeq([k \in 1..Len(frame) |-> k],
                                   LAMBDA k : code(k, col) = code(i, col))
        inv(g) == [k \in 1..Len(g) |-> frame[g[k]].Investment]
        dem(g) == [k \in 1..Len(g) |-> frame[g[k]].Demand]
        com(g) == [k \in 1..Len(g) |-> frame[g[k]].Competition]
        feature(i) ==
            LET cg == group(i, "City")
                kg == group(i, "Category")
            IN  [City_encoded             |-> code(i, "City"),
                 Category_encoded         |-> code(i, "Category"),
                 Business_encoded         |-> code(i, "Business"),
                 Investment_log           |-> frame[i].Investment,
                 Investment_scaled        |-> Rat(frame[i].Investment, 1000000),
                 City_avg_investment      |-> Mean(inv(cg)),
                 City_investment_std      |-> Variance(inv(cg)),
                 City_business_count      |-> Len(cg),
                 City_avg_demand          |-> Mean(dem(cg)),
                 City_avg_competition     |-> Mean(com(cg)),
                 Category_avg_investment  |-> Mean(inv(kg)),
                 Category_investment_std  |-> Variance(inv(kg)),
                 Category_avg_demand      |-> Mean(dem(kg)),
                 Category_avg_competition |-> Mean(com(kg))]
    IN  [label_encoders |-> enc,
         features       |-> [i \in 1..Len(frame) |-> feature(i)]]

\* MLPredictor.__init__
NewPredictor ==
    [df                 |-> <<>>,
     demand_model       |-> <<>>,
     competition_model  |-> <<>>,
     label_encoders     |-> EmptyDict,
     scaler             |-> [fitted |-> FALSE],
     feature_importance |-> EmptyDict,
     model_performance  |-> EmptyDict]

\* A fitted estimator is identified by what it was fitted on: the frame and
\* the encoders its feature matrix was prepared with (random_state is fixed).
FitModel(target, encoders, data) == [target |-> target, encoders |-> encoders, data |-> data]

FitScaler(encoders, data) == [fitted |-> TRUE, encoders |-> encoders, data |-> data]

\* train_models on the dataset file csv_file. train_test_split raises ValueError
\* when the 80% train part would be empty (fewer than 2 rows); by then the
\* dataset is loaded and prepare_features has set the encoders.
\* importance: the feature importances the two fits come out with.
train_models(p, csv_file, importance) ==
    LET data == IF IsNone(p.df) THEN csv_file ELSE p.df[1]
        pf   == prepare_features(p.label_encoders, data)
        q    == [p EXCEPT !.df = Some(data), !.label_encoders = pf.label_encoders]
    IN  IF Len(data) < 2
        THEN [raised |-> "ValueError", p |-> q]
        ELSE [raised |-> None,
              p |-> [q EXCEPT
                  !.scaler = FitScaler(pf.label_encoders, data),
                  !.demand_model = Some(FitModel("Demand", pf.label_encoders, data)),
                  !.competition_model = Some(FitModel("Competition", pf.label_encoders, data)),
                  !.model_performance = [demand |-> "metrics", competition |-> "metrics"],
                  !.feature_importance = [demand |-> importance.demand,
                                          competition |-> importance.competition]]]

StoreKeys == <<"demand_model", "competition_model", "label_encoders", "scaler">>

\* Variant: the scaler is not written.
save_models_NoScaler(p, store) ==
    LET written == [k \in {"label_encoders"}
                        \cup (IF IsNone(p.demand_model) THEN {} ELSE {"demand_model"})
                        \cup (IF IsNone(p.competition_model) THEN {} ELSE {"competition_model"})
                    |-> IF k = "demand_model" THEN p.demand_model[1]
                        ELSE IF k = "competition_model" THEN p.competition_model[1]
                        ELSE p.label_encoders]
    IN  [k \in DOMAIN store \cup DOMAIN written |->
            IF k \in DOMAIN written THEN written[k] ELSE store[k]]

\* save_models: a model blob is written only when the model is set; the
\* encoders and the scaler are always written.
save_models(p, store) ==
    LET written == [k \in {"label_encoders", "scaler"}
                        \cup (IF IsNone(p.demand_model) THEN {} ELSE {"demand_model"})
                        \cup (IF IsNone(p.competition_model) THEN {} ELSE {"competition_model"})
                    |-> IF k = "demand_model" THEN p.demand_model[1]
                        ELSE IF k = "competition_model" THEN p.competition_model[1]
                        ELSE IF k = "label_encoders" THEN p.label_encoders
                        ELSE p.scaler]
    IN  [k \in DOMAIN store \cup DOMAIN written |->
            IF k \in DOMAIN written THEN written[k] ELSE store[k]]

\* load_models: the four joblib.load calls in order; the first blob that is
\* missing raises FileNotFoundError, which is caught and answered False. The
\* attributes assigned before it keep their loaded values.
RECURSIVE LoadFrom(_, _, _)
LoadFrom(p, store, k) ==
    IF k > Len(StoreKeys) THEN [ok |-> TRUE, p |-> p]
    ELSE IF StoreKeys[k] \notin DOMAIN store THEN [ok |-> FALSE, p |-> p]
    ELSE LET key == StoreKeys[k]
             q == IF key = "demand_model"
                      THEN [p EXCEPT !.demand_model = Some(store[key])]
                  ELSE IF key = "competition_model"
                      THEN [p EXCEPT !.competition_model = Some(store[key])]
                  ELSE IF key = "label_encoders"
                      THEN [p EXCEPT !.label_encoders = store[key]]
                  ELSE [p EXCEPT !.scaler = store[key]]
         IN  LoadFrom(q, store, k + 1)

\* Variant: True is answered as soon as the two models are loaded.
load_models_ModelsOnly(p, store) ==
    [ok |-> {"demand_model", "competition_model"} \subseteq DOMAIN store,
     p  |-> LoadFrom(p, store, 1).p]

load_models(p, store) == LoadFrom(p, store, 1)

\* Variant: only the upper end clipped.
Clip_UpperOnly(x, lo, hi) == IF RatLt(FromInt(hi), x) THEN FromInt(hi) ELSE x

\* np.clip of a float to integer limits.
Clip(x, lo, hi) ==
    IF RatLt(x, FromInt(lo)) THEN FromInt(lo)
    ELSE IF RatLt(FromInt(hi), x) THEN FromInt(hi)
    ELSE x

\* min(base_confidence + np.random.normal(0, 0.1), 1.0)
calculate_confidence(jitter) == RatMin(RatAdd(Rat(85, 100), jitter), FromInt(1))

FallbackTable ==
    [Food       |-> [demand |-> 75, competition |-> 65],
     Tech       |-> [demand |-> 80, competition |-> 55],
     Healthcare |-> [demand |-> 85, competition |-> 45],
     Education  |-> [demand |-> 70, competition |-> 60],
     Fitness    |-> [demand |-> 72, competition |-> 50],
     Tourism    |-> [demand |-> 68, competition |-> 55],
     Retail     |-> [demand |-> 65, competition |-> 70]]

\* Variant: the default pair for every category.
get_fallback_prediction_DefaultOnly(category) ==
    [demand             |-> FromInt(70),
     competition        |-> FromInt(60),
     confidence         |-> Rat(6, 10),
     market_gap         |-> FromInt(10),
     prediction_quality |-> "Medium"]

get_fallback_prediction(category) ==
    LET pred == IF category \in DOMAIN FallbackTable THEN FallbackTable[category]
                ELSE [demand |-> 70, competition |-> 60]
    IN  [demand             |-> FromInt(pred.demand),
         competition        |-> FromInt(pred.competition),
         confidence         |-> Rat(6, 10),
         market_gap         |-> FromInt(pred.demand - pred.competition),
         prediction_quality |-> "Medium"]

\* Variant: the bands applied to the confidence as reported (2 decimals).
QualityOf_Rounded(confidence) ==
    IF RatLt(Rat(8, 10), Round2(confidence)) THEN "High"
    ELSE IF RatLt(Rat(6, 10), Round2(confidence)) THEN "Medium"
    ELSE "Low"

QualityOf(confidence) ==
    IF RatLt(Rat(8, 10), confidence) THEN "High"
    ELSE IF RatLt(Rat(6, 10), confidence) THEN "Medium"
    ELSE "Low"

\* The placeholder row predict_single_business builds for its input.
InputFrame(city, category, business, investment) ==
    <<[City |-> city, Category |-> category, Business |-> business,
       Investment |-> investment, Demand |-> 0, Competition |-> 0]>>

\* Variant: the market gap computed from the rounded demand and competition.
PredictOrFallback_GapOfFields(p, city, category, business, investment, raw, jitter) ==
    LET pf == prepare_features(p.label_encoders,
                               InputFrame(city, category, business, investment))
        q  == [p EXCEPT !.label_encoders = pf.label_encoders]
    IN  IF IsNone(p.demand_model) \/ IsNone(p.competition_model) \/ ~p.scaler.fitted
        THEN \* scaler.transform raises NotFittedError, None has no predict
             [raised |-> None, p |-> q, features |-> pf.features,
              ret |-> get_fallback_prediction(category)]
        ELSE LET demand_pred      == Clip(raw.demand, 50, 100)
                 competition_pred == Clip(raw.competition, 20, 80)
                 confidence       == calculate_confidence(jitter)
             IN  [raised |-> None, p |-> q, features |-> pf.features,
                  ret |-> [demand             |-> Round1(demand_pred),
                           competition        |-> Round1(competition_pred),
                           confidence         |-> Round2(confidence),
                           market_gap         |-> RatSub(Round1(demand_pred),
                                                         Round1(competition_pred)),
                           prediction_quality |-> QualityOf(confidence)]]

\* The try block of predict_single_business with its except branch.
\* raw: what the two regressors' predict returns for the scaled features;
\* jitter: the draw of np.random.normal(0, 0.1).
PredictOrFallback(p, city, category, business, investment, raw, jitter) ==
    LET pf == prepare_features(p.label_encoders,
                               InputFrame(city, category, business, investment))
        q  == [p EXCEPT !.label_encoders = pf.label_encoders]
    IN  IF IsNone(p.demand_model) \/ IsNone(p.competition_model) \/ ~p.scaler.fitted
        THEN \* scaler.transform raises NotFittedError, None has no predict
             [raised |-> None, p |-> q, features |-> pf.features,
              ret |-> get_fallback_prediction(category)]
        ELSE LET demand_pred      == Clip(raw.demand, 50, 100)
                 competition_pred == Clip(raw.competition, 20, 80)
                 confidence       == calculate_confidence(jitter)
             IN  [raised |-> None, p |-> q, features |-> pf.features,
                  ret |-> [demand             |-> Round1(demand_pred),
                           competition        |-> Round1(competition_pred),
                           confidence         |-> Round2(confidence),
                           market_gap         |-> Round1(RatSub(demand_pred, competition_pred)),
                           prediction_quality |-> QualityOf(confidence)]]

\* Variant without the "Models not trained" guard: a missing model fails
\* inside the try block and the fallback answers.
predict_single_business_NoGuard(p, city, category, business, investment, raw, jitter) ==
    PredictOrFallback(p, city, category, business, investment, raw, jitter)

\* predict_single_business. Answers [raised, p, features, ret]: the exception
\* that leaves the call (or None), the predictor after the call, the feature
\* frame prepared for the input (<<>> if none was), and the dict returned.
predict_single_business(p, city, category, business, investment, raw, jitter) ==
    IF IsNone(p.demand_model) \/ IsNone(p.competition_model)
    THEN [raised |-> "ValueError", p |-> p, features |-> <<>>, ret |-> EmptyDict]
    ELSE PredictOrFallback(p, city, category, business, investment, raw, jitter)

\* feature_columns of prepare_features, in order: the key order of the
\* feature_importance dicts.
FeatureColumns ==
    <<"City_encoded", "Category_encoded", "Business_encoded", "Investment_log",
      "Investment_scaled", "City_avg_investment", "City_investment_std",
      "City_business_count", "City_avg_demand", "City_avg_competition",
      "Category_avg_investment", "Category_investment_std",
      "Category_avg_demand", "Category_avg_competition">>

\* s[:n] of a Python list
SliceTo(s, n) ==
    IF n >= Len(s) THEN s
    ELSE IF n >= 0 THEN SubSeq(s, 1, n)
    ELSE IF Len(s) + n > 0 THEN SubSeq(s, 1, Len(s) + n)
    ELSE <<>>

\* Variant: the first top_n items of the dict, not sorted.
get_feature_importance_Unsorted(p, model_type, top_n) ==
    IF model_type \notin DOMAIN p.feature_importance THEN <<>>
    ELSE SliceTo([i \in 1..Len(FeatureColumns) |->
                     <<FeatureColumns[i], p.feature_importance[model_type][FeatureColumns[i]]>>],
                 top_n)

\* get_feature_importance: the dict returned, as the sequence of its
\* (feature, importance) items. sorted(..., reverse=True) is stable: equal
\* importances keep the order of feature_columns.
get_feature_importance(p, model_type, top_n) ==
    IF model_type \notin DOMAIN p.feature_importance THEN <<>>
    ELSE LET importance_dict == p.feature_importance[model_type]
             key   == [i \in 1..Len(FeatureColumns) |-> importance_dict[FeatureColumns[i]]]
             order == StableSortDesc([i \in 1..Len(FeatureColumns) |-> i], key)
             sorted_features == [k \in 1..Len(order) |->
                                    <<FeatureColumns[order[k]], key[order[k]]>>]
         IN  SliceTo(sorted_features, top_n)

(***************************************************************************)
(* The engine's ML integration.                                            *)
(***************************************************************************)
\* _initialize_ml_predictor: restore the models, else train and save; any
\* exception disables ML. Answers the engine's use_ml and ml_predictor
\* (<<>> for None) and the model store afterwards.
initialize_ml_predictor(csv_file, store, importance) ==
    LET l == load_models(NewPredictor, store)
        t == train_models(l.p, csv_file, importance)
    IN  IF l.ok THEN [use_ml |-> TRUE, ml_predictor |-> Some(l.p), store |-> store]
        ELSE IF t.raised # None
             THEN [use_ml |-> FALSE, ml_predictor |-> <<>>, store |-> store]
        ELSE [use_ml |-> TRUE, ml_predictor |-> Some(t.p), store |-> save_models(t.p, store)]

\* RecommendationEngine.__init__ after load_data succeeded.
EngineAfterInit(csv_file, want_ml, store, importance) ==
    IF want_ml THEN initialize_ml_predictor(csv_file, store, importance)
    ELSE [use_ml |-> FALSE, ml_predictor |-> <<>>, store |-> store]

get_basic_prediction(d, city, category) ==
    LET all_rows      == [k \in 1..Len(d) |-> k]
        city_data     == SelectSeq(all_rows, LAMBDA k : d[k].City = city /\ d[k].Category = category)
        category_data == SelectSeq(all_rows, LAMBDA k : d[k].Category = category)
        rows          == IF city_data = <<>> THEN category_data ELSE city_data
        avg_demand      == IF rows = <<>> THEN FromInt(70)
                           ELSE Mean(Column(d, rows, "Demand"))
        avg_competition == IF rows = <<>> THEN FromInt(50)
                           ELSE Mean(Column(d, rows, "Competition"))
    IN  [demand             |-> Round1(avg_demand),
         competition        |-> Round1(avg_competition),
         market_gap         |-> Round1(RatSub(avg_demand, avg_competition)),
         confidence         |-> Rat(7, 10),
         prediction_quality |-> "Basic"]

interpret_ml_prediction(prediction) ==
    LET market_gap == prediction.market_gap
        confidence == prediction.confidence
    IN  IF RatLt(FromInt(20), market_gap) /\ RatLt(Rat(8, 10), confidence)
            THEN "Excellent opportunity with high confidence"
        ELSE IF RatLt(FromInt(15), market_gap) /\ RatLt(Rat(7, 10), confidence)
            THEN "Good opportunity with solid predictions"
        ELSE IF RatLt(FromInt(5), market_gap)
            THEN "Moderate opportunity, consider market research"
        ELSE "Challenging market, high competition expected"

get_business_recommendation(prediction) ==
    IF RatLt(FromInt(80), prediction.demand) /\ RatLt(prediction.competition, FromInt(40))
        THEN "Highly recommended - High demand, low competition"
    ELSE IF RatLt(FromInt(70), prediction.demand) /\ RatLt(prediction.competition, FromInt(60))
        THEN "Recommended - Good market potential"
    ELSE IF RatLt(prediction.confidence, Rat(6, 10))
        THEN "Needs more research - Low prediction confidence"
    ELSE "Proceed with caution - Competitive market"

\* Variant without the "ML disabled" guard and without the try block: what
\* the predictor call raises leaves the engine call.
predict_new_business_opportunity_NoGuards(d, ml_on, predictor, city, category, business, investment, raw, jitter) ==
    IF IsNone(predictor)
    THEN [raised |-> "AttributeError", ml_predictor |-> predictor, ret |-> EmptyDict]
    ELSE LET r == predict_single_business(predictor[1], city, category, business,
                                          investment, raw, jitter)
         IN  [raised |-> r.raised, ml_predictor |-> Some(r.p), ret |-> r.ret]

\* predict_new_business_opportunity: [raised, ml_predictor, ret], the
\* exception leaving the call (or None), the predictor attribute after the
\* call and the dict returned.
predict_new_business_opportunity(d, ml_on, predictor, city, category, business, investment, raw, jitter) ==
    IF ~ml_on \/ IsNone(predictor)
    THEN [raised |-> None, ml_predictor |-> predictor,
          ret |-> get_basic_prediction(d, city, category)]
    ELSE LET r == predict_single_business(predictor[1], city, category, business,
                                          investment, raw, jitter)
         IN  IF r.raised # None
             THEN [raised |-> None, ml_predictor |-> Some(r.p),
                   ret |-> get_basic_prediction(d, city, category)]
             ELSE [raised |-> None, ml_predictor |-> Some(r.p),
                   ret |-> [demand             |-> r.ret.demand,
                            competition        |-> r.ret.competition,
                            confidence         |-> r.ret.confidence,
                            market_gap         |-> r.ret.market_gap,
                            prediction_quality |-> r.ret.prediction_quality,
                            interpretation     |-> interpret_ml_prediction(r.ret),
                            recommendation     |-> get_business_recommendation(r.ret)]]

(***************************************************************************)
(* Bounds and input domains.                                               *)
(***************************************************************************)
ScoreStep == 20      \* demand and competition are sampled every ScoreStep in 0..100
MaxMoney == 7        \* budgets and investments range over 1..MaxMoney (money units)

ScoreVals == {v \in 0..100 : v % ScoreStep = 0} \cup {100}
MoneyVals == 1..MaxMoney
Categories == {"Food", "Tech", "Retail"}
InterestSets == SUBSET {"Food", "Tech"}

ProbeRows ==
    [City : {"Mumbai"}, Category : Categories, Business : {"Cafe"},
     Investment : MoneyVals, Demand : ScoreVals, Competition : ScoreVals]

(***************************************************************************)
(* SpecScore: the scoring functions applied to one row and one query.      *)
(***************************************************************************)
\* An engine given as constructed: __init__ has returned.
Constructed == [pc |-> "constructed"]

EngineIdle ==
    /\ csv = <<>>
    /\ ctor = Constructed
    /\ df = <<>>
    /\ qsTie = <<>>
    /\ use_ml = FALSE
    /\ ml_predictor = <<>>
    /\ files = EmptyDict
    /\ phase = "Untrained"
    /\ lastCall = [op |-> None]

ScoreInit ==
    /\ EngineIdle
    /\ sIn \in [row : ProbeRows, budget : MoneyVals, interests : InterestSets]
    /\ sOut = <<>>

\* Score the probe row as get_recommendations scores each row of the city.
ScoreRow ==
    /\ sOut = <<>>
    /\ sOut' = <<Recommendation(sIn.row, sIn.budget, sIn.interests)>>
    /\ UNCHANGED <<csv, ctor, df, qsTie, use_ml, ml_predictor, files, phase, lastCall, sIn>>

ScoreNext == ScoreRow

SpecScore == ScoreInit /\ [][ScoreNext]_vars

(***************************************************************************)
(* Domains of the engine and predictor specifications.                     *)
(***************************************************************************)
MaxRows == 3         \* the engine's dataset file has at most MaxRows rows
MaxTrainRows == 2    \* the predictor's dataset file has at most MaxTrainRows rows

\* Food businesses need 1 money unit and Tech businesses 2; Delhi has Food only.
EngineRows ==
    {r \in [City : {"Mumbai", "Delhi"}, Category : {"Food", "Tech"},
            Business : {"Cafe", "App"}, Investment : {1, 2},
            Demand : {80}, Competition : {40}] :
        /\ (r.Category = "Food") <=> (r.Investment = 1)
        /\ (r.Category = "Food") <=> (r.Business = "Cafe")
        /\ r.City = "Delhi" => r.Category = "Food"}

RECURSIVE SeqsUpTo(_, _)
SeqsUpTo(S, n) == IF n = 0 THEN {<<>>} ELSE SeqsUpTo(S, n - 1) \cup [1..n -> S]

Datasets == SeqsUpTo(EngineRows, MaxRows)

Perms(n) == {f \in [1..n -> 1..n] : \A i, j \in 1..n : f[i] = f[j] => i = j}

QueryCities == {"Mumbai", "Pune"}

Queries ==
    [city : QueryCities, budget : {1, 2}, interests : {{}, {"Tech"}},
     top_n : 1..MaxRows]

FeatureNames ==
    {"City_encoded", "Category_encoded", "Business_encoded", "Investment_log",
     "Investment_scaled", "City_avg_investment", "City_investment_std",
     "City_business_count", "City_avg_demand", "City_avg_competition",
     "Category_avg_investment", "Category_investment_std",
     "Category_avg_demand", "Category_avg_competition"}

\* feature_importances_ of a fitted forest: all zero when no tree splits,
\* else summing to 1.
ImportanceZero == [n \in FeatureNames |-> FromInt(0)]
ImportanceLog == [n \in FeatureNames |->
                     IF n = "Investment_log" THEN Rat(35, 100) ELSE Rat(5, 100)]
Importances == [demand : {ImportanceZero, ImportanceLog}, competition : {ImportanceLog}]

\* A Food business named Cafe in Mumbai or Pune, or a Crafts business named
\* Kiosk in Mumbai; no dataset row has the city Pune, the category Crafts or
\* the business Kiosk.
PredictInputs ==
    {in \in [city : QueryCities, category : {"Food", "Crafts"},
             business : {"Cafe", "Kiosk"}, investment : {1}] :
        /\ (in.category = "Crafts") <=> (in.business = "Kiosk")
        /\ in.city = "Pune" => in.category = "Food"}
\* What the two regressors answer: floats, here below and above the clipping
\* limits.
RawPredictions ==
    {[demand |-> FromInt(45), competition |-> FromInt(95)],
     [demand |-> FromInt(90), competition |-> FromInt(10)]}
Jitters == {Rat(-3, 10), Rat(1, 10)}

\* The draws of the predictor specification: also a model output with
\* fractions inside the limits (a forest answers the mean of its trees), and
\* jitters that give a confidence below 0 (-0.05), 'Low' (0.55),
\* 'Medium' (0.75), just above 0.8 (0.804) and above the cap (1.15).
ModelOutputs ==
    RawPredictions \cup {[demand |-> Rat(7526, 100), competition |-> Rat(4024, 100)]}
JitterDraws == {Rat(-9, 10), Rat(-3, 10), Rat(-1, 10), Rat(-46, 1000), Rat(3, 10)}

\* The two draws are independent: every model output with one jitter, and
\* every jitter with one model output.
Draws ==
    [raw : ModelOutputs, jitter : {Rat(-1, 10)}]
        \cup [raw : {[demand |-> FromInt(45), competition |-> FromInt(95)]},
            jitter : JitterDraws]

(***************************************************************************)
(* Spec: the engine after construction, serving calls one at a time.       *)
(***************************************************************************)
Init ==
    /\ csv \in Datasets
    /\ ctor = Constructed
    /\ df = csv                                       \* load_data
    /\ qsTie \in Perms(MaxRows)
    /\ \E want_ml \in BOOLEAN :
          LET e == EngineAfterInit(csv, want_ml, EmptyDict,
                                   [demand |-> ImportanceLog, competition |-> ImportanceLog])
          IN  /\ use_ml = e.use_ml
              /\ ml_predictor = e.ml_predictor
              /\ files = e.store
              /\ phase = IF e.use_ml THEN "Trained" ELSE "Untrained"
    /\ lastCall = [op |-> None]
    /\ sIn = <<>>
    /\ sOut = <<>>

Recommend(q) ==
    /\ lastCall.op = None
    /\ \E top \in {top_businesses(df, qsTie, q.city, q.budget, q.interests, q.top_n)} :
          lastCall' = [op |-> "get_recommendations", query |-> q, top |-> top,
                       raised |-> None,
                       result |-> Recommendations(df, top, q.budget, q.interests)]
    /\ df' = DfAfterRecommend(df, q.city)
    /\ UNCHANGED <<csv, ctor, qsTie, use_ml, ml_predictor, files, phase, sIn, sOut>>

CitySummary(city) ==
    /\ lastCall.op = None
    /\ lastCall' = [op |-> "get_city_summary", city |-> city, raised |-> None,
                    result |-> get_city_summary(df, qsTie, city)]
    /\ UNCHANGED <<csv, ctor, df, qsTie, use_ml, ml_predictor, files, phase, sIn, sOut>>

CategoryAnalysis(city) ==
    /\ lastCall.op = None
    /\ lastCall' = [op |-> "get_category_analysis", city |-> city, raised |-> None,
                    result |-> get_category_analysis(df, city)]
    /\ UNCHANGED <<csv, ctor, df, qsTie, use_ml, ml_predictor, files, phase, sIn, sOut>>

PredictNew(in, raw, jitter) ==
    /\ lastCall.op = None
    /\ LET r == predict_new_business_opportunity(df, use_ml, ml_predictor, in.city,
                    in.category, in.business, in.investment, raw, jitter)
       IN  /\ ml_predictor' = r.ml_predictor
           /\ lastCall' = [op |-> "predict_new_business_opportunity", input |-> in,
                           before |-> ml_predictor, raised |-> r.raised,
                           result |-> r.ret]
    /\ UNCHANGED <<csv, ctor, df, qsTie, use_ml, files, phase, sIn, sOut>>

\* The call returns to the caller; a constructor returns the engine once it
\* has run to its end, and never after it raised.
Return ==
    /\ lastCall.op # None
    /\ ctor.pc = "constructed"
    /\ lastCall' = [op |-> None]
    /\ UNCHANGED <<csv, ctor, df, qsTie, use_ml, ml_predictor, files, phase, sIn, sOut>>

Next ==
    \/ \E q \in Queries : Recommend(q)
    \/ \E city \in QueryCities : CitySummary(city)
    \/ \E city \in QueryCities : CategoryAnalysis(city)
    \/ \E in \in PredictInputs, raw \in RawPredictions, jitter \in Jitters :
          PredictNew(in, raw, jitter)
    \/ Return

Spec == Init /\ [][Next]_vars

(***************************************************************************)
(* SpecPred: one MLPredictor object, constructed over a dataset file and   *)
(* a model store in which an earlier run may have left blobs.              *)
(***************************************************************************)
\* What a run that trained on two rows and saved leaves in the store.
SavedBlobs ==
    LET rows == <<CHOOSE r \in EngineRows : r.City = "Mumbai" /\ r.Category = "Food",
                  CHOOSE r \in EngineRows : r.City = "Mumbai" /\ r.Category = "Tech">>
        imp  == [demand |-> ImportanceLog, competition |-> ImportanceLog]
    IN  save_models(train_models(NewPredictor, rows, imp).p, EmptyDict)

\* save_models writes the blobs in the order of StoreKeys: a save that was
\* interrupted leaves the first n of them.
InitialStores ==
    {[k \in {StoreKeys[i] : i \in 1..n} \cap DOMAIN SavedBlobs |-> SavedBlobs[k]] :
        n \in 0..Len(StoreKeys)}

\* The predictor's dataset files hold Food rows of the two cities.
TrainRows == {r \in EngineRows : r.Category = "Food"}

PredInit ==
    /\ csv \in SeqsUpTo(TrainRows, MaxTrainRows)
    /\ ctor = Constructed
    /\ df = <<>>
    /\ qsTie = <<>>
    /\ use_ml = FALSE
    /\ ml_predictor = Some(NewPredictor)
    /\ files \in InitialStores
    /\ phase = "Untrained"
    /\ lastCall = [op |-> None]
    /\ sIn = <<>>
    /\ sOut = <<>>

Train(importance) ==
    /\ lastCall.op = None
    /\ LET t == train_models(ml_predictor[1], csv, importance)
       IN  /\ ml_predictor' = Some(t.p)
           /\ phase' = IF t.raised = None THEN "Trained" ELSE phase
           /\ lastCall' = [op |-> "train_models", raised |-> t.raised]
    /\ UNCHANGED <<csv, ctor, df, qsTie, use_ml, files, sIn, sOut>>

Save ==
    /\ lastCall.op = None
    /\ files' = save_models(ml_predictor[1], files)
    /\ lastCall' = [op |-> "save_models", raised |-> None]
    /\ UNCHANGED <<csv, ctor, df, qsTie, use_ml, ml_predictor, phase, sIn, sOut>>

Load ==
    /\ lastCall.op = None
    /\ LET l == load_models(ml_predictor[1], files)
       IN  /\ ml_predictor' = Some(l.p)
           /\ phase' = IF l.ok THEN "Trained" ELSE phase
           /\ lastCall' = [op |-> "load_models", before |-> ml_predictor[1],
                           raised |-> None, result |-> l.ok]
    /\ UNCHANGED <<csv, ctor, df, qsTie, use_ml, files, sIn, sOut>>

Predict(in, raw, jitter) ==
    /\ lastCall.op = None
    /\ LET r == predict_single_business(ml_predictor[1], in.city, in.category,
                                        in.business, in.investment, raw, jitter)
       IN  /\ ml_predictor' = Some(r.p)
           /\ lastCall' = [op |-> "predict_single_business", input |-> in,
                           raw |-> raw, jitter |-> jitter,
                           before |-> ml_predictor[1], features |-> r.features,
                           raised |-> r.raised, result |-> r.ret]
    /\ UNCHANGED <<csv, ctor, df, qsTie, use_ml, files, phase, sIn, sOut>>

\* A second, newly constructed MLPredictor restores from the store.
FreshRestore ==
    /\ lastCall.op = None
    /\ LET l == load_models(NewPredictor, files)
       IN  lastCall' = [op |-> "load_models (new instance)", raised |-> None,
                        result |-> l.ok, fresh |-> l.p]
    /\ UNCHANGED <<csv, ctor, df, qsTie, use_ml, ml_predictor, files, phase, sIn, sOut>>

ModelTypes == {"demand", "competition", "revenue"}
TopNs == {0, 5, 20}

FeatureImportance(model_type, top_n) ==
    /\ lastCall.op = None
    /\ lastCall' = [op |-> "get_feature_importance", model_type |-> model_type,
                    top_n |-> top_n, raised |-> None,
                    result |-> get_feature_importance(ml_predictor[1], model_type, top_n)]
    /\ UNCHANGED <<csv, ctor, df, qsTie, use_ml, ml_predictor, files, phase, sIn, sOut>>

PredNext ==
    \/ \E importance \in Importances : Train(importance)
    \/ Save
    \/ Load
    \/ \E in \in PredictInputs, d \in Draws : Predict(in, d.raw, d.jitter)
    \/ FreshRestore
    \/ \E model_type \in ModelTypes, top_n \in TopNs : FeatureImportance(model_type, top_n)
    \/ Return

SpecPred == PredInit /\ [][PredNext]_vars

(***************************************************************************)
(* SpecBuild: BusinessRecommendationEngine.__init__ followed step by step  *)
(* over a dataset file and a model store, and the engine it returns        *)
(* serving calls one at a time.                                            *)
(***************************************************************************)
\* What pd.read_csv does with the dataset file: it reads the rows, finds no
\* file, or cannot parse what it finds.
ReadOutcomes == {"ok", "FileNotFoundError", "ParserError"}

\* Variant: a failed read is swallowed and the engine goes on without rows.
load_data_Swallowed(csv_file, outcome) ==
    [raised |-> None, df |-> IF outcome = "ok" THEN csv_file ELSE <<>>]

\* load_data: [raised, df]. FileNotFoundError is raised again as such, any
\* other exception as Exception("Error loading dataset: ...").
load_data(csv_file, outcome) ==
    IF outcome = "ok" THEN [raised |-> None, df |-> csv_file]
    ELSE IF outcome = "FileNotFoundError"
        THEN [raised |-> "FileNotFoundError", df |-> <<>>]
    ELSE [raised |-> "Exception", df |-> <<>>]

\* if self.use_ml: self._initialize_ml_predictor()
AfterLoadData(ml_on) == IF ml_on THEN "load_models" ELSE "constructed"

\* Variant: the models are trained whatever load_models answered.
AfterRestore_AlwaysTrain(ok) == "train_models"

\* if not self.ml_predictor.load_models(): train_models(); save_models()
AfterRestore(ok) == IF ok THEN "constructed" ELSE "train_models"

\* joblib.load of a blob that is there but cannot be unpickled, and
\* os.makedirs / joblib.dump on a store that cannot be written.
LoadFaults == {None, "UnpicklingError"}
SaveFaults == {None, "OSError"}

\* The constructor's record after one more step.
Stepped(step, outcome, pc, raised) ==
    [pc |-> pc, steps |-> Append(ctor.steps, <<step, outcome>>), raised |-> raised]

\* Variant: the handler only reports; the engine keeps use_ml and a predictor.
MlFailed_KeepsPredictor(step, exc) ==
    /\ use_ml' = use_ml
    /\ ml_predictor' = (IF IsNone(ml_predictor) THEN Some(NewPredictor) ELSE ml_predictor)
    /\ phase' = phase
    /\ ctor' = Stepped(step, exc, "constructed", None)

\* The except branch of _initialize_ml_predictor: ML is switched off, the
\* predictor is dropped, and __init__ ends normally.
MlFailed(step, exc) ==
    /\ use_ml' = FALSE
    /\ ml_predictor' = <<>>
    /\ phase' = "Untrained"
    /\ ctor' = Stepped(step, exc, "constructed", None)

\* The stores an engine may find: what an interrupted save left, or two model
\* blobs next to the encoders and scaler that save_models of a predictor
\* that was never trained wrote.
BuildStores ==
    InitialStores
        \cup {save_models(NewPredictor,
                  [k \in {"demand_model", "competition_model"} \cap DOMAIN SavedBlobs
                      |-> SavedBlobs[k]])}

\* BusinessRecommendationEngine(dataset_path, use_ml) is entered: df and
\* ml_predictor are None, use_ml is the argument.
BuildInit ==
    /\ csv \in SeqsUpTo(TrainRows, MaxTrainRows)
    /\ ctor = [pc |-> "load_data", steps |-> <<>>, raised |-> None]
    /\ df = <<>>
    /\ qsTie = [i \in 1..MaxRows |-> i]
    /\ use_ml \in BOOLEAN
    /\ ml_predictor = <<>>
    /\ files \in BuildStores
    /\ phase = "Untrained"
    /\ lastCall = [op |-> "__init__"]
    /\ sIn = <<>>
    /\ sOut = <<>>

\* self.load_data()
InitLoadData(outcome) ==
    /\ ctor.pc = "load_data"
    /\ LET r == load_data(csv, outcome)
       IN  /\ df' = r.df
           /\ ctor' = Stepped("load_data", outcome,
                              IF r.raised # None THEN "raised" ELSE AfterLoadData(use_ml),
                              r.raised)
    /\ UNCHANGED <<csv, qsTie, use_ml, ml_predictor, files, phase, lastCall, sIn, sOut>>

\* self.ml_predictor = MLPredictor(...); self.ml_predictor.load_models()
InitRestore(fault) ==
    /\ ctor.pc = "load_models"
    /\ fault # None => DOMAIN files # {}
    /\ LET l == load_models(NewPredictor, files)
       IN  IF fault # None THEN MlFailed("load_models", fault)
           ELSE /\ ml_predictor' = Some(l.p)
                /\ phase' = IF l.ok THEN "Trained" ELSE phase
                /\ use_ml' = use_ml
                /\ ctor' = Stepped("load_models", IF l.ok THEN "True" ELSE "False",
                                   AfterRestore(l.ok), None)
    /\ UNCHANGED <<csv, df, qsTie, files, lastCall, sIn, sOut>>

\* self.ml_predictor.train_models()
InitTrain(importance) ==
    /\ ctor.pc = "train_models"
    /\ LET t == train_models(ml_predictor[1], csv, importance)
       IN  IF t.raised # None THEN MlFailed("train_models", t.raised)
           ELSE /\ ml_predictor' = Some(t.p)
                /\ phase' = "Trained"
                /\ use_ml' = use_ml
                /\ ctor' = Stepped("train_models", "ok", "save_models", None)
    /\ UNCHANGED <<csv, df, qsTie, files, lastCall, sIn, sOut>>

\* self.ml_predictor.save_models(); a store that cannot be written fails
\* before any blob is.
InitPersist(fault) ==
    /\ ctor.pc = "save_models"
    /\ IF fault # None
       THEN /\ MlFailed("save_models", fault)
            /\ files' = files
       ELSE /\ files' = save_models(ml_predictor[1], files)
            /\ ctor' = Stepped("save_models", "ok", "constructed", None)
            /\ UNCHANGED <<use_ml, ml_predictor, phase>>
    /\ UNCHANGED <<csv, df, qsTie, lastCall, sIn, sOut>>

BuildNext ==
    \/ \E outcome \in ReadOutcomes : InitLoadData(outcome)
    \/ \E fault \in LoadFaults : InitRestore(fault)
    \/ \E importance \in Importances : InitTrain(importance)
    \/ \E fault \in SaveFaults : InitPersist(fault)
    \/ \E q \in Queries : Recommend(q)
    \/ \E city \in QueryCities : CitySummary(city)
    \/ \E city \in QueryCities : CategoryAnalysis(city)
    \/ \E in \in PredictInputs, raw \in RawPredictions, jitter \in Jitters :
          PredictNew(in, raw, jitter)
    \/ Return

SpecBuild == BuildInit /\ [][BuildNext]_vars

(***************************************************************************)
(* Claims about get_recommendations (checked under Spec).                   *)
(***************************************************************************)
Recommended == lastCall.op = "get_recommendations"

\* The number of dataset rows of the query city.
Matches(city) == Cardinality({i \in 1..Len(df) : df[i].City = city})

ScoreOf(i, q) == calculate_total_score(df[i], q.budget, q.interests)

\* C1: the sequence returned by get_recommendations is in non-increasing
\* score order, its entries are distinct dataset rows whose city is the
\* query city, and no row of that city left out of the result has a score
\* strictly greater than a returned row's.
Thm_C1_TopByScore ==
    Recommended =>
        LET q   == lastCall.query
            top == lastCall.top
            res == lastCall.result
        IN  /\ Len(res) = Len(top)
            /\ \A i, j \in 1..Len(res) : i < j => RatLe(res[j].score, res[i].score)
            /\ \A i, j \in 1..Len(top) : i # j => top[i] # top[j]
            /\ \A i \in 1..Len(top) :
                   /\ top[i] \in 1..Len(df)
                   /\ df[top[i]].City = q.city
                   /\ res[i].business_name = df[top[i]].Business
                   /\ res[i].category = df[top[i]].Category
                   /\ res[i].score = ScoreOf(top[i], q)
            /\ \A k \in 1..Len(df) :
                   (df[k].City = q.city /\ k \notin Range(top)) =>
                       \A i \in 1..Len(res) : ~RatLt(res[i].score, ScoreOf(k, q))

\* A call left out a row of the city and returned rows of unequal scores,
\* the better one from later in the dataset.
Wit_C1_CutAndReordered ==
    /\ Recommended
    /\ Len(lastCall.top) = 2
    /\ Matches(lastCall.query.city) = 3
    /\ lastCall.top[1] > lastCall.top[2]
    /\ lastCall.result[1].score # lastCall.result[2].score

\* C2: get_recommendations returns exactly min(top_n, n) entries, n the
\* number of dataset rows of the query city: all n when top_n > n, the
\* empty list when n = 0; it raises in neither case.
Thm_C2_Count ==
    Recommended =>
        LET q == lastCall.query
            n == Matches(q.city)
        IN  /\ lastCall.raised = None
            /\ Len(lastCall.result) = (IF q.top_n < n THEN q.top_n ELSE n)
            /\ q.top_n > n => Len(lastCall.result) = n
            /\ n = 0 => lastCall.result = <<>>

\* A call asked for more entries than the city has rows, and the city has some.
Wit_C2_FewerThanAsked ==
    /\ Recommended
    /\ Matches(lastCall.query.city) = 2
    /\ lastCall.query.top_n = 3
    /\ Len(lastCall.result) = 2

\* C3: every get_recommendations call returns what the query yields on the
\* dataset as loaded, whatever calls (get_recommendations, get_city_summary,
\* get_category_analysis, predict_new_business_opportunity) came before it,
\* so two calls with the same query return the same list; and the engine's
\* dataset is the loaded one after every call.
Thm_C3_Idempotent ==
    /\ df = csv
    /\ Recommended =>
           lastCall.result =
               get_recommendations(csv, qsTie, lastCall.query.city, lastCall.query.budget,
                                   lastCall.query.interests, lastCall.query.top_n)

\* A get_recommendations call on a dataset with several rows of the city
\* returned a non-empty list.
Wit_C3_Recommended ==
    /\ Recommended
    /\ Len(lastCall.result) >= 2
    /\ Len(df) = MaxRows

\* Rows of equal score are returned in dataset order, and of the rows tied
\* with a returned row the ones left out come later in the dataset.
TiesInDatasetOrder ==
    LET q   == lastCall.query
        top == lastCall.top
    IN  /\ \A i, j \in 1..Len(top) :
               (i < j /\ ScoreOf(top[i], q) = ScoreOf(top[j], q)) => top[i] < top[j]
        /\ \A k \in 1..Len(df), i \in 1..Len(top) :
               (df[k].City = q.city /\ k \notin Range(top)
                   /\ ScoreOf(k, q) = ScoreOf(top[i], q)) => top[i] < k

\* C4 as stated: rows of the query city with equal score are ordered by
\* their position in the dataset, also at the cut-off.
Cex_C4_StableAlways == Recommended => TiesInDatasetOrder

\* C4 amended: when top_n is less than the number of rows of the city
\* (nlargest's mergesort path), rows of equal score are ordered by their
\* position in the dataset and the earliest of the rows tied at the cut-off
\* are kept; when top_n reaches that number every row is returned.
Thm_C4_StableWhenCut ==
    Recommended =>
        LET q == lastCall.query
            n == Matches(q.city)
        IN  /\ q.top_n < n => TiesInDatasetOrder
            /\ q.top_n >= n =>
                   \A k \in 1..Len(df) : df[k].City = q.city => k \in Range(lastCall.top)

\* A call cut three rows of equal score down to two.
Wit_C4_TieAtCutOff ==
    /\ Recommended
    /\ lastCall.query.top_n = 2
    /\ Matches(lastCall.query.city) = 3
    /\ \A i \in 1..Len(df) : ScoreOf(i, lastCall.query) = ScoreOf(1, lastCall.query)
    /\ lastCall.top = <<1, 2>>

(***************************************************************************)
(* Claims about the predictor (checked under SpecPred).                    *)
(***************************************************************************)
Predicted == lastCall.op = "predict_single_business"

InRange(q, lo, hi) == RatLe(FromInt(lo), q) /\ RatLe(q, FromInt(hi))

\* The weighted sum of an entry's three sub-scores, before rounding.
ExactTotal(r) ==
    RatAdd(RatAdd(RatMul(r.market_gap, Rat(1, 2)), RatMul(r.budget_fit, Rat(3, 10))),
           RatMul(r.interest_match, Rat(1, 5)))

\* C5: for a record with demand and competition in [0,100] and positive
\* investment, a positive budget and any interest set, the total score is
\* 0.5*marketGap + 0.3*budgetFit + 0.2*interestMatch rounded to 2 decimals
\* (a whole number of hundredths, at most half a hundredth from the exact sum)
\* and lies in [0,100]; sub-scores (0,0,100) give 20 and (100,100,0) give 80.
Thm_C5_TotalScore ==
    Len(sOut) = 1 =>
        LET r == sOut[1] IN
        /\ InRange(r.score, 0, 100)
        /\ 100 % r.score[2] = 0
        /\ RatLe(RatAbs(RatSub(r.score, ExactTotal(r))), Rat(1, 200))
        /\ WeightedTotal(FromInt(0), FromInt(0), FromInt(100)) = FromInt(20)
        /\ WeightedTotal(FromInt(100), FromInt(100), FromInt(0)) = FromInt(80)

\* A row was scored and rounding changed the exact weighted sum.
Wit_C5_Rounded ==
    /\ Len(sOut) = 1
    /\ sOut[1].score # ExactTotal(sOut[1])
    /\ sIn.budget < sIn.row.Investment

\* C6: for demand d and competition c in [0,100], marketGap(d,c) lies in
\* [0,100], is strictly larger for every larger demand and strictly smaller
\* for every larger competition, and marketGap(d,c) + marketGap(c,d) = 100.
Thm_C6_MarketGap ==
    Len(sOut) = 1 =>
        LET d == sIn.row.Demand
            c == sIn.row.Competition
            g == sOut[1].market_gap
        IN  /\ InRange(g, 0, 100)
            /\ \A d2 \in ScoreVals : d2 > d => RatLt(g, calculate_market_gap(d2, c))
            /\ \A c2 \in ScoreVals : c2 > c => RatLt(calculate_market_gap(d, c2), g)
            /\ RatAdd(g, calculate_market_gap(c, d)) = FromInt(100)

\* A market gap was computed for unequal demand and competition below 100.
Wit_C6_MarketGap ==
    /\ Len(sOut) = 1
    /\ sIn.row.Demand < 100
    /\ sIn.row.Competition < 100
    /\ sIn.row.Demand # sIn.row.Competition

\* C7: for positive budget b and required investment r, budgetFit(b,r) lies
\* in [0,100], is 100 exactly when b >= r, and for fixed b is strictly
\* smaller for every larger r once r > b.
Thm_C7_BudgetFit ==
    Len(sOut) = 1 =>
        LET b == sIn.budget
            r == sIn.row.Investment
            f == sOut[1].budget_fit
        IN  /\ InRange(f, 0, 100)
            /\ (f = FromInt(100)) <=> (b >= r)
            /\ \A r2 \in MoneyVals :
                   (r > b /\ r2 > r) => RatLt(calculate_budget_fit(b, r2), f)

\* A budget fit was computed for a budget short of the investment, with a
\* larger investment to compare against.
Wit_C7_Shortfall ==
    /\ Len(sOut) = 1
    /\ sIn.budget < sIn.row.Investment
    /\ sIn.row.Investment < MaxMoney
    /\ sOut[1].budget_fit # FromInt(100)

\* C8: interestMatch is 100 exactly when the row's category is among the
\* interests and 0 otherwise; a row whose category is among the interests
\* scores exactly 20 more than a row of equal demand, competition and
\* investment whose category is not; with no interests it is 0.
Thm_C8_InterestMatch ==
    Len(sOut) = 1 =>
        LET row  == sIn.row
            ints == sIn.interests
            r    == sOut[1]
        IN  /\ (r.interest_match = FromInt(100)) <=> (row.Category \in ints)
            /\ (r.interest_match = FromInt(0)) <=> (row.Category \notin ints)
            /\ ints = {} => r.interest_match = FromInt(0)
            /\ \A cat2 \in Categories :
                   (row.Category \in ints /\ cat2 \notin ints) =>
                       RatSub(r.score,
                              calculate_total_score([row EXCEPT !.Category = cat2],
                                                    sIn.budget, ints))
                           = FromInt(20)

\* A row whose category is among the interests was scored, at a budget fit
\* that is not a whole number.
Wit_C8_Matching ==
    /\ Len(sOut) = 1
    /\ sIn.row.Category \in sIn.interests
    /\ sOut[1].budget_fit[2] # 1

\* C9: the explanation has exactly three tags, in the order market, budget,
\* interest; each tag is the one of its band: market >= 70 / >= 50 / else,
\* budget = 100 / >= 80 / >= 50 / else, interest = 100 / else.
Thm_C9_Explanation ==
    Len(sOut) = 1 =>
        LET r == sOut[1]
            e == r.explanation
            g == r.market_gap
            f == r.budget_fit
        IN  /\ Len(e) = 3
            /\ (e[1] = "high opportunity") <=> RatLe(FromInt(70), g)
            /\ (e[1] = "good potential") <=>
                   (RatLe(FromInt(50), g) /\ RatLt(g, FromInt(70)))
            /\ (e[1] = "competitive market") <=> RatLt(g, FromInt(50))
            /\ (e[2] = "perfect fit") <=> (f = FromInt(100))
            /\ (e[2] = "good alignment") <=>
                   (RatLe(FromInt(80), f) /\ RatLt(f, FromInt(100)))
            /\ (e[2] = "moderate requirement") <=>
                   (RatLe(FromInt(50), f) /\ RatLt(f, FromInt(80)))
            /\ (e[2] = "high investment needed") <=> RatLt(f, FromInt(50))
            /\ (e[3] = "matches interests") <=> (r.interest_match = FromInt(100))
            /\ (e[3] = "outside preferred categories") <=>
                   (r.interest_match # FromInt(100))

\* An explanation was built at the lower end of two bands: market gap
\* exactly 70 and budget fit exactly 80.
Wit_C9_BandEdges ==
    /\ Len(sOut) = 1
    /\ sOut[1].market_gap = FromInt(70)
    /\ sOut[1].budget_fit = FromInt(80)
    /\ sOut[1].explanation = <<"high opportunity", "good alignment", "matches interests">>

(***************************************************************************)
(* Claims about predict_single_business in every predictor state           *)
(* (checked under SpecPred).                                               *)
(***************************************************************************)
ModelsAbsent(p) == IsNone(p.demand_model) \/ IsNone(p.competition_model)

InPredictionRanges(result) ==
    /\ InRange(result.demand, 50, 100)
    /\ InRange(result.competition, 20, 80)

TrainingFrame(p) == p.demand_model[1].data
TrainingEncoders(p) == p.demand_model[1].encoders

InputValue(in, col) ==
    IF col = "City" THEN in.city ELSE IF col = "Category" THEN in.category ELSE in.business

EncodedValue(feature, col) ==
    IF col = "City" THEN feature.City_encoded
    ELSE IF col = "Category" THEN feature.Category_encoded
    ELSE feature.Business_encoded

ObservedInTraining(p, col, v) ==
    \E i \in 1..Len(TrainingFrame(p)) : TrainingFrame(p)[i][col] = v

\* The models, encoders and scaler of predictor p are those of predictor q.
SameTrainedPair(p, q) ==
    /\ p.demand_model = q.demand_model
    /\ p.competition_model = q.competition_model
    /\ p.label_encoders = q.label_encoders
    /\ p.scaler = q.scaler

\* C12: in the Trained state, predict_single_business encodes a city,
\* category or business that no training row had as -1 and a value that a
\* training row had as the code that row got; it does not raise and it
\* leaves the encoders as they were.
Cex_C12_SentinelForUnseen ==
    (Predicted /\ phase = "Trained") =>
        /\ lastCall.raised = None
        /\ ml_predictor[1].label_encoders = lastCall.before.label_encoders
        /\ \A col \in Range(EncodedColumns) :
               LET v    == InputValue(lastCall.input, col)
                   code == EncodedValue(lastCall.features[1], col)
               IN  IF ObservedInTraining(lastCall.before, col, v)
                   THEN code = EncodeValue(TrainingEncoders(lastCall.before)[col], v)
                   ELSE code = -1

(***************************************************************************)
(* Claims about the features built at prediction time (SpecPred).          *)
(***************************************************************************)
CityAggregates(f) ==
    <<f.City_avg_investment, f.City_investment_std, f.City_business_count,
      f.City_avg_demand, f.City_avg_competition>>

CategoryAggregates(f) ==
    <<f.Category_avg_investment, f.Category_investment_std,
      f.Category_avg_demand, f.Category_avg_competition>>

\* The feature rows the training frame of predictor p got.
TrainingFeatures(p) == prepare_features(TrainingEncoders(p), TrainingFrame(p)).features

\* C13: the feature row predict_single_business builds for an input carries
\* the city aggregates that the training rows of that city got and the
\* category aggregates that the training rows of that category got.
Cex_C13_TrainingAggregates ==
    (Predicted /\ phase = "Trained" /\ lastCall.features # <<>>) =>
        LET p  == lastCall.before
            f  == lastCall.features[1]
            in == lastCall.input
        IN  \A i \in 1..Len(TrainingFrame(p)) :
               /\ TrainingFrame(p)[i].City = in.city =>
                      CityAggregates(f) = CityAggregates(TrainingFeatures(p)[i])
               /\ TrainingFrame(p)[i].Category = in.category =>
                      CategoryAggregates(f) = CategoryAggregates(TrainingFeatures(p)[i])

(***************************************************************************)
(* Claims about confidence and prediction_quality (SpecPred).              *)
(***************************************************************************)
Returned == Predicted /\ lastCall.raised = None

\* The call took the model path: both models answered.
OnModelPath == Returned /\ lastCall.before.scaler.fitted

\* The bands of quality on a confidence value c.
QualityBands(quality, c) ==
    /\ (quality = "High") <=> RatLt(Rat(8, 10), c)
    /\ (quality = "Medium") <=> (RatLt(Rat(6, 10), c) /\ RatLe(c, Rat(8, 10)))
    /\ (quality = "Low") <=> RatLe(c, Rat(6, 10))

\* base confidence 0.85 plus the jitter of the call, capped at 1.0
DrawnConfidence == RatMin(RatAdd(Rat(85, 100), lastCall.jitter), FromInt(1))

\* C14 as stated: in every result returned by predict_single_business,
\* prediction_quality is 'High' iff the result's confidence is > 0.8,
\* 'Medium' iff it is > 0.6 and <= 0.8, and 'Low' otherwise.
Cex_C14_QualityOfReported ==
    Returned =>
        QualityBands(lastCall.result.prediction_quality, lastCall.result.confidence)

\* C14 amended: in every result of the model path, prediction_quality is
\* 'High' iff the confidence before rounding is > 0.8, 'Medium' iff it is
\* > 0.6 and <= 0.8, and 'Low' otherwise, and the result's confidence is that
\* value rounded to 2 decimals; every fallback result has confidence 0.6
\* with quality 'Medium'.
Thm_C14_QualityOfDrawn ==
    Returned =>
        IF OnModelPath
        THEN /\ QualityBands(lastCall.result.prediction_quality, DrawnConfidence)
             /\ 100 % lastCall.result.confidence[2] = 0
             /\ RatLe(RatAbs(RatSub(lastCall.result.confidence, DrawnConfidence)),
                       Rat(1, 200))
        ELSE /\ lastCall.result.confidence = Rat(6, 10)
             /\ lastCall.result.prediction_quality = "Medium"

\* A confidence just above 0.8 was drawn: the result says 'High' and reports 0.8.
Wit_C14_RoundedToBandEdge ==
    /\ OnModelPath
    /\ RatLt(Rat(8, 10), DrawnConfidence)
    /\ lastCall.result.confidence = Rat(8, 10)
    /\ lastCall.result.prediction_quality = "High"

\* C15: for every value of the jitter, the confidence reported by
\* predict_single_business lies in [0,1].
Cex_C15_ConfidenceInUnitRange ==
    Returned => InRange(lastCall.result.confidence, 0, 1)

(***************************************************************************)
(* Claims about the fallback in the Trained state (SpecPred).              *)
(***************************************************************************)
SevenCategories ==
    {"Food", "Tech", "Healthcare", "Education", "Fitness", "Tourism", "Retail"}

\* A step of the try block raised: the restored scaler was never fitted.
StepRaised == Returned /\ ~lastCall.before.scaler.fitted

\* C16: when a step of predict_single_business raises in the Trained state,
\* the call returns the static entry of the input category: the explicit
\* pair of one of the seven categories, or demand 70 and competition 60 for
\* any other category, with confidence 0.6 and quality 'Medium'.
Thm_C16_FallbackEntry ==
    (Predicted /\ phase = "Trained" /\ ~lastCall.before.scaler.fitted) =>
        LET r   == lastCall.result
            cat == lastCall.input.category
        IN  /\ lastCall.raised = None
            /\ DOMAIN FallbackTable = SevenCategories
            /\ cat \in SevenCategories =>
                   /\ r.demand = FromInt(FallbackTable[cat].demand)
                   /\ r.competition = FromInt(FallbackTable[cat].competition)
            /\ cat \notin SevenCategories =>
                   /\ r.demand = FromInt(70)
                   /\ r.competition = FromInt(60)
            /\ r.confidence = Rat(6, 10)
            /\ r.prediction_quality = "Medium"

\* A restored predictor whose scaler was never fitted was asked about a
\* category outside the table.
Wit_C16_UnknownCategory ==
    /\ StepRaised
    /\ phase = "Trained"
    /\ lastCall.input.category = "Crafts"
    /\ lastCall.result.demand = FromInt(70)

(***************************************************************************)
(* Claims about save_models and load_models (SpecPred).                    *)
(***************************************************************************)
Loaded == lastCall.op = "load_models"

AllKeysPresent(store) == \A k \in Range(StoreKeys) : k \in DOMAIN store

\* C17: load_models returns False without raising whenever at least one of
\* the four store keys is absent, and returns True only when all four are
\* present and loaded into the predictor.
Thm_C17_RestoreResult ==
    Loaded =>
        /\ lastCall.raised = None
        /\ lastCall.result \in BOOLEAN
        /\ ~AllKeysPresent(files) => lastCall.result = FALSE
        /\ lastCall.result = TRUE =>
               /\ AllKeysPresent(files)
               /\ ml_predictor[1].demand_model = Some(files["demand_model"])
               /\ ml_predictor[1].competition_model = Some(files["competition_model"])
               /\ ml_predictor[1].label_encoders = files["label_encoders"]
               /\ ml_predictor[1].scaler = files["scaler"]

\* load_models answered False for a store that lacks only the scaler.
Wit_C17_ScalerAbsent ==
    /\ Loaded
    /\ DOMAIN files = {"demand_model", "competition_model", "label_encoders"}
    /\ lastCall.result = FALSE

FreshRestored == lastCall.op = "load_models (new instance)"

\* The store holds exactly what predictor p persists.
PersistedBy(p) == files = save_models(p, files)

\* C18: when a Trained predictor has persisted to the store and a new
\* predictor restores from it, the restore succeeds, the new predictor holds
\* the same models, encoders and scaler, and for every input it prepares the
\* same features and returns the same demand, competition and market gap as
\* the original for the same model outputs, whatever the jitters.
Thm_C18_RoundTrip ==
    (FreshRestored /\ phase = "Trained" /\ PersistedBy(ml_predictor[1])) =>
        LET orig  == ml_predictor[1]
            fresh == lastCall.fresh
        IN  /\ lastCall.result = TRUE
            /\ SameTrainedPair(fresh, orig)
            /\ \A in \in PredictInputs, d \in Draws, j \in JitterDraws :
                   LET a == predict_single_business(orig, in.city, in.category,
                                in.business, in.investment, d.raw, d.jitter)
                       b == predict_single_business(fresh, in.city, in.category,
                                in.business, in.investment, d.raw, j)
                   IN  /\ a.raised = None
                       /\ b.raised = None
                       /\ b.features = a.features
                       /\ b.ret.demand = a.ret.demand
                       /\ b.ret.competition = a.ret.competition
                       /\ b.ret.market_gap = a.ret.market_gap

\* A predictor trained on the dataset file persisted, and a new predictor
\* restored from the store.
Wit_C18_RestoredCopy ==
    /\ FreshRestored
    /\ phase = "Trained"
    /\ PersistedBy(ml_predictor[1])
    /\ ~IsNone(ml_predictor[1].df)
    /\ lastCall.fresh.scaler.fitted
    /\ lastCall.fresh # ml_predictor[1]

\* C19: once the predictor is Trained, a predict_single_business call
\* leaves the models, the encoders and the scaler as they were.
Cex_C19_FrozenAfterTraining ==
    (Predicted /\ phase = "Trained") => SameTrainedPair(ml_predictor[1], lastCall.before)

(***************************************************************************)
(* Claims about get_feature_importance (SpecPred).                         *)
(***************************************************************************)
ImportanceAsked == lastCall.op = "get_feature_importance"

\* C20: get_feature_importance(model_type, top_n) returns at most top_n
\* items, each a feature with its importance for that model, in
\* non-increasing importance order, none with a lower importance than a
\* feature left out; it returns the empty dict while the predictor has
\* never been trained.
Thm_C20_TopImportances ==
    ImportanceAsked =>
        LET r     == lastCall.result
            fi    == ml_predictor[1].feature_importance
            names == {r[i][1] : i \in 1..Len(r)}
        IN  /\ lastCall.raised = None
            /\ Len(r) <= lastCall.top_n
            /\ Cardinality(names) = Len(r)
            /\ \A i, j \in 1..Len(r) : i < j => RatLe(r[j][2], r[i][2])
            /\ r # <<>> =>
                   /\ lastCall.model_type \in DOMAIN fi
                   /\ \A i \in 1..Len(r) :
                          /\ r[i][1] \in FeatureNames
                          /\ r[i][2] = fi[lastCall.model_type][r[i][1]]
                   /\ \A n \in FeatureNames \ names, i \in 1..Len(r) :
                          RatLe(fi[lastCall.model_type][n], r[i][2])
            /\ phase = "Untrained" => r = <<>>

\* The five most important features were asked of a trained predictor whose
\* most important feature is the fourth column.
Wit_C20_TopFive ==
    /\ ImportanceAsked
    /\ lastCall.top_n = 5
    /\ Len(lastCall.result) = 5
    /\ lastCall.result[1][1] = "Investment_log"
    /\ lastCall.result[2][2] # lastCall.result[1][2]

(***************************************************************************)
(* Claims about the market gap of a prediction (checked under SpecPred).   *)
(***************************************************************************)
ResultGapOfFields ==
    lastCall.result.market_gap
        = RatSub(lastCall.result.demand, lastCall.result.competition)

\* C29 as stated: in every result predict_single_business returns, on the
\* model path or the fallback path, market_gap equals the result's demand
\* minus the result's competition, and lies in [-30, 80].
Cex_C29_GapOfFields ==
    Returned => (ResultGapOfFields /\ InRange(lastCall.result.market_gap, -30, 80))

\* C29 amended: in every result predict_single_business returns, market_gap
\* lies in [-30, 80]; on the fallback path it equals the result's demand
\* minus the result's competition; on the model path it is the difference of
\* the clipped predictions rounded to 1 decimal, which is within 0.1 of the
\* difference of the result's (separately rounded) demand and competition.
Thm_C29_GapOfPredictions ==
    Returned =>
        LET r == lastCall.result
        IN  /\ InRange(r.market_gap, -30, 80)
            /\ IF OnModelPath
               THEN /\ r.market_gap
                          = Round1(RatSub(Clip(lastCall.raw.demand, 50, 100),
                                          Clip(lastCall.raw.competition, 20, 80)))
                    /\ RatLe(RatAbs(RatSub(r.market_gap,
                                           RatSub(r.demand, r.competition))),
                             Rat(1, 10))
               ELSE ResultGapOfFields

\* The models answered 75.26 and 40.24: demand 75.3, competition 40.2 and
\* market gap 35.0, not 35.1.
Wit_C29_RoundedApart ==
    /\ OnModelPath
    /\ lastCall.result.demand = Rat(753, 10)
    /\ lastCall.result.competition = Rat(402, 10)
    /\ lastCall.result.market_gap = FromInt(35)
    /\ ~ResultGapOfFields

(***************************************************************************)
(* Claims about the feature importances of a restored predictor (checked   *)
(* under SpecPred).                                                        *)
(***************************************************************************)
\* C30: in every Trained state, reached by train_models or by a successful
\* load_models, get_feature_importance('demand', n) and
\* get_feature_importance('competition', n) are non-empty for every n >= 1;
\* the result is empty only while the predictor is Untrained.
Cex_C30_ImportancesWhenTrained ==
    (/\ ImportanceAsked
     /\ lastCall.model_type \in {"demand", "competition"}
     /\ lastCall.top_n >= 1
     /\ phase = "Trained") => lastCall.result # <<>>

(***************************************************************************)
(* Claims about a failed restore (checked under SpecPred).                 *)
(***************************************************************************)
\* C27: a load_models call that returns False leaves the predictor exactly
\* as it was before the call: none of the models, the encoders or the scaler
\* is replaced by a stored value, and an Untrained predictor has no model
\* loaded afterwards.
Cex_C27_FailedRestoreFrame ==
    (Loaded /\ lastCall.result = FALSE) =>
        /\ ml_predictor[1] = lastCall.before
        /\ phase = "Untrained" => /\ IsNone(ml_predictor[1].demand_model)
                                  /\ IsNone(ml_predictor[1].competition_model)

(***************************************************************************)
(* Claims about the encoders after training (checked under SpecPred).      *)
(***************************************************************************)
Trained == lastCall.op = "train_models" /\ lastCall.raised = None

\* The classes of an encoder are distinct, so that value -> place - 1 is a
\* bijection onto 0..n-1.
DenseCodes(classes) ==
    \A i, j \in 1..Len(classes) : classes[i] = classes[j] => i = j

\* C26: whenever train_models completes, after any preceding calls on the
\* predictor (a failed or partial load_models from a store written for
\* another dataset, an earlier train_models), each of the City, Category and
\* Business encoders is a bijection between exactly the distinct values of
\* that column in the dataset and the codes 0..n-1, and no training row is
\* encoded with -1.
Cex_C26_EncodersOfDataset ==
    Trained =>
        LET p    == ml_predictor[1]
            data == p.df[1]
        IN  \A col \in Range(EncodedColumns) :
                /\ col \in DOMAIN p.label_encoders
                /\ DenseCodes(p.label_encoders[col])
                /\ Range(p.label_encoders[col]) = {data[i][col] : i \in 1..Len(data)}
                /\ \A i \in 1..Len(data) :
                       EncodeValue(p.label_encoders[col], data[i][col]) # -1

(***************************************************************************)
(* Claims about get_category_analysis and get_city_summary (checked under  *)
(* Spec).                                                                  *)
(***************************************************************************)
Analysed == lastCall.op = "get_category_analysis"

\* The rows of df with the given city and category, as positions.
CityCategoryRows(city, cat) ==
    SelectSeq([i \in 1..Len(df) |-> i],
              LAMBDA i : df[i].City = city /\ df[i].Category = cat)

\* ((demand - competition) + 100) / 200 * 100 of two means.
MarketGapOfMeans(demand, competition) ==
    RatMul(RatDiv(RatAdd(RatSub(demand, competition), FromInt(100)), FromInt(200)),
           FromInt(100))

\* C24: get_category_analysis(city) has one entry per category with at least
\* one row in the city (the empty dict for a city without rows), and each
\* entry's market_gap is the market gap score ((d - c) + 100) / 200 * 100 of
\* the category's mean demand d and mean competition c in the city.
Cex_C24_GapScoreOfMeans ==
    Analysed =>
        LET r == lastCall.result
        IN  /\ DOMAIN r = {df[i].Category : i \in Range(CityFrame(df, lastCall.city))}
            /\ \A c \in DOMAIN r :
                   LET g == CityCategoryRows(lastCall.city, c)
                   IN  r[c].market_gap
                           = MarketGapOfMeans(Mean(Column(df, g, "Demand")),
                                              Mean(Column(df, g, "Competition")))

Summarised == lastCall.op = "get_city_summary"

\* df with its rows in the order f.
Reordered(f) == [i \in 1..Len(df) |-> df[f[i]]]

\* C25: get_city_summary(city) is empty when the city has no rows; otherwise
\* total_businesses is the number of rows of the city, min_investment and
\* max_investment bound every row's investment, and top_category is a
\* category with the maximum row count in the city, ties resolved to the
\* first category in a fixed category ordering: the same category whatever
\* the order of the rows.
Cex_C25_TopCategoryFixedOrder ==
    Summarised =>
        LET r    == lastCall.result
            city == lastCall.city
            rows == CityFrame(df, city)
        IN  IF rows = <<>> THEN DOMAIN r = {}
            ELSE /\ r.total_businesses = Len(rows)
                 /\ \A i \in Range(rows) :
                        /\ r.min_investment <= df[i].Investment
                        /\ df[i].Investment <= r.max_investment
                 /\ \A i \in Range(rows) :
                        CountOf(df, rows, df[i].Category)
                            <= CountOf(df, rows, r.top_category)
                 /\ \A f \in Perms(Len(df)) :
                        get_city_summary(Reordered(f), qsTie, city).top_category
                            = r.top_category

(***************************************************************************)
(* Claims about the construction of the engine and its predictions         *)
(* (checked under SpecBuild).                                              *)
(***************************************************************************)
Constructing == lastCall.op = "__init__"
PredictedNew == lastCall.op = "predict_new_business_opportunity"

\* The names of the steps the constructor has taken, in order.
StepNames == [i \in 1..Len(ctor.steps) |-> ctor.steps[i][1]]
StepOrder == <<"load_data", "load_models", "train_models", "save_models">>

\* The fields every prediction of the engine carries.
PredictionFields ==
    {"demand", "competition", "market_gap", "confidence", "prediction_quality"}

\* The call was not answered by the models: ML is off, or the predictor's
\* step from features to predictions cannot run.
NonModel ==
    \/ ~use_ml
    \/ IsNone(lastCall.before)
    \/ ModelsAbsent(lastCall.before[1])
    \/ ~lastCall.before[1].scaler.fitted

\* C21: predict_new_business_opportunity never raises, for any (city,
\* category, name, investment): with ML enabled, with ML disabled, and when
\* the predictor fails during the call, it returns a dict with demand,
\* competition, market_gap, confidence and prediction_quality, and every
\* result not answered by the models has prediction_quality 'Basic' or
\* 'Medium'.
Thm_C21_AlwaysAPrediction ==
    PredictedNew =>
        /\ lastCall.raised = None
        /\ PredictionFields \subseteq DOMAIN lastCall.result
        /\ NonModel => lastCall.result.prediction_quality \in {"Basic", "Medium"}
        /\ (~use_ml \/ IsNone(lastCall.before)) =>
               lastCall.result.prediction_quality = "Basic"

\* An engine with ML enabled whose predictor was restored with a scaler that
\* was never fitted: the predictor failed during the call and the engine
\* returned its 'Medium' answer with an interpretation.
Wit_C21_PredictorFailedInCall ==
    /\ PredictedNew
    /\ use_ml
    /\ ~IsNone(lastCall.before)
    /\ ~lastCall.before[1].scaler.fitted
    /\ lastCall.result.prediction_quality = "Medium"
    /\ "interpretation" \in DOMAIN lastCall.result

\* A step of _initialize_ml_predictor raised.
MlStepRaised ==
    \E i \in 2..Len(ctor.steps) : ctor.steps[i][2] \notin {"True", "False", "ok"}

\* C22: if load_models, train_models or save_models raises while the engine
\* initializes its predictor, the engine is still constructed, with use_ml
\* False and ml_predictor None; every later
\* predict_new_business_opportunity call returns the basic prediction
\* (quality 'Basic'), and get_recommendations, get_city_summary and
\* get_category_analysis answer from the dataset as loaded.
Thm_C22_MlFailureDisables ==
    MlStepRaised =>
        /\ ctor.pc = "constructed"
        /\ ctor.raised = None
        /\ ~use_ml
        /\ IsNone(ml_predictor)
        /\ df = csv
        /\ ~Constructing => lastCall.op = None \/ lastCall.raised = None
        /\ PredictedNew =>
               /\ lastCall.result
                      = get_basic_prediction(csv, lastCall.input.city, lastCall.input.category)
               /\ lastCall.result.prediction_quality = "Basic"
        /\ Recommended =>
               lastCall.result
                   = get_recommendations(csv, qsTie, lastCall.query.city,
                         lastCall.query.budget, lastCall.query.interests,
                         lastCall.query.top_n)
        /\ Summarised => lastCall.result = get_city_summary(csv, qsTie, lastCall.city)
        /\ Analysed => lastCall.result = get_category_analysis(csv, lastCall.city)

\* train_models completed, save_models raised OSError, and the engine that
\* was constructed all the same answered a prediction.
Wit_C22_PersistFailed ==
    /\ Len(ctor.steps) = 4
    /\ ctor.steps[4] = <<"save_models", "OSError">>
    /\ PredictedNew
    /\ lastCall.result.prediction_quality = "Basic"

\* C23: if loading the dataset fails, the constructor raises before any
\* step of the predictor initialization; an engine that serves
\* get_recommendations, get_city_summary, get_category_analysis or
\* predict_new_business_opportunity has been constructed over the dataset
\* read in full.
Thm_C23_LoadFailureFatal ==
    /\ (ctor.steps # <<>> /\ ctor.steps[1][2] # "ok") =>
           /\ ctor.pc = "raised"
           /\ ctor.raised \in {"FileNotFoundError", "Exception"}
           /\ StepNames = <<"load_data">>
           /\ IsNone(ml_predictor)
           /\ Constructing
    /\ ctor.pc = "raised" => ctor.steps[1][2] # "ok"
    /\ ~Constructing =>
           /\ ctor.pc = "constructed"
           /\ ctor.steps[1] = <<"load_data", "ok">>
           /\ df = csv

\* ML was asked for, the dataset file could not be parsed, and the
\* constructor raised.
Wit_C23_UnreadableDataset ==
    /\ ctor.pc = "raised"
    /\ ctor.raised = "Exception"
    /\ ctor.steps = <<<<"load_data", "ParserError">>>>
    /\ use_ml
    /\ csv # <<>>

\* C28: during a construction with ML requested the steps are load_data,
\* load_models, and then train_models and save_models only when
\* load_models returned False; train_models is never called after a
\* successful load_models, save_models never unless train_models completed;
\* and once the constructor has run to its end, use_ml holds only if the
\* attached predictor is Trained, with both models present.
Thm_C28_ConstructionOrder ==
    LET steps == ctor.steps
        n     == Len(steps)
    IN  /\ n <= Len(StepOrder)
        /\ \A i \in 1..n : StepNames[i] = StepOrder[i]
        /\ n >= 2 => steps[1][2] = "ok"
        /\ n >= 3 => steps[2][2] = "False"
        /\ n >= 4 => steps[3][2] = "ok"
        /\ (ctor.pc = "constructed" /\ n >= 2 /\ steps[2][2] = "False") => n >= 3
        /\ (ctor.pc = "constructed" /\ n >= 3 /\ steps[3][2] = "ok") => n = 4
        /\ (ctor.pc = "constructed" /\ use_ml) =>
               /\ n \in {2, 4}
               /\ ~IsNone(ml_predictor)
               /\ ~ModelsAbsent(ml_predictor[1])
               /\ phase = "Trained"

\* All four steps were taken and the engine ends with ML enabled.
Wit_C28_TrainedAndPersisted ==
    /\ Constructing
    /\ ctor.pc = "constructed"
    /\ StepNames = StepOrder
    /\ ctor.steps[2][2] = "False"
    /\ use_ml
    /\ AllKeysPresent(files)

====
